---------------------------- MODULE Spec2Model ----------------------------
(***************************************************************************)
(* The generation engine of kalosm-llama: the dispatcher thread spawned by *)
(* Llama::from_build (src/models/kalosm-llama/src/lib.rs) and the decode   *)
(* loop LlamaModel::_infer (src/models/kalosm-llama/src/model.rs) with its *)
(* stop-phrase matcher.                                                    *)
(*                                                                         *)
(* Text is a sequence of one-character strings.  The detokenizer, sampler  *)
(* and forward pass are external: their results are inputs of the actions. *)
(***************************************************************************)
EXTENDS Naturals, Sequences, FiniteSets

(***************************************************************************)
(* Bounds of the model.                                                    *)
(***************************************************************************)
NumCallers == 2       \* callers of the dispatcher, one request each
MaxSteps == 3         \* tokens sampled per request before the stop token
MaxDispatchSteps == 2 \* the same, in the dispatcher specification
MaxTextLen == 2       \* characters one token decodes to
MaxStopLen == 2       \* characters of a configured stop phrase
MaxDecoded == 4       \* characters decoded per request
MaxPrompt == 2        \* token ids of an encoded prompt
MaxExtraVocab == 2    \* vocabulary entries beyond the logits that are kept
MaxCalls == 2         \* remote chat calls on one session
MaxChunks == 2        \* content chunks of one remote chat response
MaxSettings == 2      \* WuerstchenInferenceSettings given to one Wuerstchen
MaxImages == 2        \* images of one inference

\* The k of Logits::try_from_iter_top_k after the prompt pass and after the
\* pass over a new token.
TopKPrompt == 512
TopKToken == 512

\* Bounds of the remote chat session: messages in a session, characters in a
\* message.
MaxMessages == 2
MaxContentLen == 1

\* Bounds of embed_vec: input strings of a call, elements of a response (and
\* the largest index the service labels one with).
MaxInputs == 2
MaxData == 2

Callers == 1..NumCallers

Alphabet == {"a", "b", "A"}

\* All texts over the alphabet with lo..hi characters.
TextsOfLen(lo, hi) == UNION {[1..n -> Alphabet] : n \in lo..hi}

\* What one sampled token can decode to in the decode-loop specification.
Texts == TextsOfLen(1, MaxTextLen)

\* Option<String>: None, or Some(val).
None == [some |-> FALSE, val |-> <<>>]
Some(s) == [some |-> TRUE, val |-> s]

\* The stop_on settings of the decode-loop specification.
StopPhrases == {None} \cup {Some(s) : s \in TextsOfLen(0, MaxStopLen)}

\* Stop phrases one character longer than those of StopPhrases, over two
\* letters: long enough to be matched in part behind a non-empty buffer.
LongStopPhrases == {Some(s) : s \in [1..MaxStopLen + 1 -> {"a", "b"}]}

\* The numbers of token ids a prompt can be encoded to.
Prompts == 0..MaxPrompt

\* The smaller inputs of the dispatcher specification.
DispatchPrompts == {1}
DispatchTexts == {<<"a">>}
DispatchStops == {None, Some(<<"a">>)}

(***************************************************************************)
(* String operations of the Rust standard library, as _infer uses them.    *)
(***************************************************************************)
LowerChar(c) == IF c = "A" THEN "a" ELSE c

\* A comparison that keeps the case of the letters.
keep_case(s) == s

to_lowercase(s) == [i \in 1..Len(s) |-> LowerChar(s[i])]

starts_with(s, p) == Len(p) <= Len(s) /\ SubSeq(s, 1, Len(p)) = p

\* s.strip_prefix(p).unwrap_or(s)
strip_prefix_or(s, p) ==
    IF starts_with(s, p) THEN SubSeq(s, Len(p) + 1, Len(s)) ELSE s

\* Whether p occurs in s as a contiguous substring.
Contains(s, p) ==
    \E i \in 0..Len(s) : i + Len(p) <= Len(s) /\ SubSeq(s, i + 1, i + Len(p)) = p

IsPrefix(p, s) == starts_with(s, p)


(***************************************************************************)
(* The stop-phrase scan of _infer: `for (i, _) in lowercase.char_indices()`*)
(* from character i on.  The result is the first position whose suffix     *)
(* starts with the remaining stop phrase ("full") or is a prefix of it     *)
(* ("partial"), or "none" when the loop runs off the end of the text.      *)
(***************************************************************************)
RECURSIVE ScanFrom(_, _, _)
ScanFrom(lowercase, remaining_stop_on, i) ==
    IF i > Len(lowercase)
    THEN [kind |-> "none", at |-> i]
    ELSE LET end_of_new_text == SubSeq(lowercase, i, Len(lowercase)) IN
         IF starts_with(end_of_new_text, remaining_stop_on)
         THEN [kind |-> "full", at |-> i]
         ELSE IF starts_with(remaining_stop_on, end_of_new_text)
         THEN [kind |-> "partial", at |-> i]
         ELSE ScanFrom(lowercase, remaining_stop_on, i + 1)

(***************************************************************************)
(* One decoded chunk new_text through the stop-phrase block of _infer,     *)
(* with the phrase stop_on_lowercase and the buffer queued.  The result:   *)
(*   brk    - the block leaves the 'generate loop                          *)
(*   queued - queued_text_matching_stop_on afterwards                      *)
(*   call   - whether on_token is invoked, and chunk, its argument         *)
(***************************************************************************)
MatchStopOn(stop_on_lowercase, queued, new_text) ==
    LET lowercase == to_lowercase(new_text)
        remaining_stop_on == strip_prefix_or(stop_on_lowercase, queued)
        hit == ScanFrom(lowercase, remaining_stop_on, 1)
        end_of_new_text == SubSeq(lowercase, hit.at, Len(lowercase))
    IN  IF remaining_stop_on = <<>>
        THEN [brk |-> TRUE, queued |-> queued, call |-> FALSE, chunk |-> <<>>]
        ELSE IF hit.kind = "full"
        THEN [brk |-> TRUE, queued |-> queued \o end_of_new_text,
              call |-> FALSE, chunk |-> <<>>]
        ELSE IF hit.kind = "partial"
        THEN [brk |-> FALSE, queued |-> queued \o end_of_new_text,
              call |-> TRUE, chunk |-> SubSeq(lowercase, 1, hit.at - 1)]
        ELSE [brk |-> FALSE, queued |-> <<>>,
              call |-> TRUE, chunk |-> queued \o new_text]

\* A stop_on of Some("") or None, taken for a phrase: the `if let Some` dropped.
ChunkStepAlwaysMatch(stop_on, queued, new_text) ==
    MatchStopOn(to_lowercase(stop_on.val), queued, new_text)

\* Every chunk passed on as if no stop phrase were configured.
ChunkStepNoStopOn(stop_on, queued, new_text) ==
    [brk |-> FALSE, queued |-> queued, call |-> TRUE, chunk |-> new_text]

\* `if let Some(mut new_text) = text_stream.next_token(..)`: what happens to one
\* decoded chunk, with a stop phrase (the block above) and without (on_token).
ChunkStep(stop_on, queued, new_text) ==
    IF stop_on.some
    THEN MatchStopOn(to_lowercase(stop_on.val), queued, new_text)
    ELSE [brk |-> FALSE, queued |-> queued, call |-> TRUE, chunk |-> new_text]

\* A flush of whatever is queued, the matched stop phrase included.
FlushCallsAnyQueued(stop_on, queued) == stop_on.some /\ queued # <<>>

\* The flush after the loop: whether on_token(queued) is invoked.
FlushCalls(stop_on, queued) ==
    stop_on.some /\ ~starts_with(queued, to_lowercase(stop_on.val))

(***************************************************************************)
(* State.                                                                  *)
(***************************************************************************)
VARIABLES
    handles,    \* callers that still hold a clone of Llama (a task_sender)
    cpc,        \* caller -> "idle" | "waiting" | "dropped" | "done"
    outcome,    \* caller -> what its completion signal delivered
    queue,      \* the unbounded task channel: tasks in arrival order
    wpc,        \* where the worker thread is
    cur,        \* the task the worker is running
    queued_text_matching_stop_on,
    ret,        \* the value _infer returns
    exit,       \* how the 'generate loop was left
    decoded,    \* text the detokenizer yielded for the sampled tokens of cur
    sunk,       \* concatenation of the chunks passed to on_token for cur
    nSampled,   \* calls of sample_token for cur
    nForward,   \* forward passes for cur
    nSink,      \* calls of on_token for cur
    late,       \* samples and forward passes for cur after its receiver was dropped
    tokens,     \* number of token ids the prompt of cur was encoded to
    new_token,  \* the token sample_token gave last: "stop_token", "token" or "none"
    nNextToken, \* calls of text_stream.next_token for cur: prompt and sampled tokens
    fed,        \* the token slices model.forward was called with for cur, in order
    writer,     \* the request holding the write lock of the session, or 0
    reading,    \* whether an inspector holds a read lock of the session
    signals,    \* caller -> calls of finished.send for its request
    submitted,  \* request ids in the order they were enqueued
    started,    \* request ids in the order the worker dequeued them
    returned,   \* requests whose work has returned (and, unstructured, been signalled)
    messages,   \* OpenAICompatibleChatSession::messages
    into,       \* the byte buffer write_to appends to
    restored,   \* what from_bytes(into) returned, once it was called
    input,      \* how many strings embed_vec was called with, or NoInput
    response,   \* CreateEmbeddingResponse::data as the service returned it
    embeddings, \* what embed_vec returned
    caseStop,   \* a stop phrase and the same phrase in another letter case
    caseQueued, \* queued_text_matching_stop_on of the two runs
    caseStopped,\* for each run, the number of the chunk it stopped at, or 0
    caseChunks, \* chunks given to the two runs so far
    pass,       \* the forward pass logit_probs is of: "none", "prompt" or "token"
    nPasses,    \* forward passes so far
    logit_probs,\* how many vocabulary entries the last forward pass scored;
                \* an entry is named by its rank, 1 for the highest score
    logits,     \* how many of them are in `logits`: the ranks 1..logits
    candidate,  \* the rank of the token sample_token took from logits, or 0
    thread,     \* the Wuerstchen worker thread: "starting", "recv", "run",
                \* "returned" or "panicked"
    sender,     \* the messages in the channel of Wuerstchen::sender, oldest first
    sent,       \* the settings run_into was called with, in call order
    ran,        \* the settings model.run was entered with, in order
    completed,  \* the settings model.run has returned for, in order
    running,    \* the settings model.run is running with, or 0
    streams,    \* settings -> the image channel made for them by run: what is
                \* in it (buf), whether its receiver (rx) and sender (tx) live
    images,     \* the images model.run has sent, in order
    dropped,    \* Drop for Wuerstchen: "live", "joining", "returned", "panicked"
    task,       \* the task spawned by generate: "none", "outer", "inner", "ended"
    source,     \* settings left in the stream generate was called on
    output,     \* the images the task has sent to the output stream, in order
    receiver,   \* whether the consumer still holds the output stream
    chatPc,     \* the remote chat call: "idle", "streaming" or "returned"
    chatKind,   \* "unstructured" (add_messages_with_callback) or "structured"
                \* (add_message_with_callback_and_constraints), or "none"
    before,     \* session.messages when the call was made
    new_message_text,
    on_token_args,      \* the chunks on_token was called with, in order
    finish_reason_seen, \* an event with a finish reason has been handled
    chatReturn, \* what the call returned: "none", "Ok" or the error
    parsed,     \* the value a structured call returned, or NoValue
    nCalls      \* chat calls made on the session

vars == <<handles, cpc, outcome, queue, wpc, cur, queued_text_matching_stop_on,
          ret, exit, decoded, sunk, nSampled, nForward, nSink, late,
          tokens, new_token, nNextToken, fed,
          writer, reading, signals, submitted, started, returned,
          messages, into, restored, input, response, embeddings,
          caseStop, caseQueued, caseStopped, caseChunks,
          pass, nPasses, logit_probs, logits, candidate,
          thread, sender, sent, ran, completed, running, streams, images,
          dropped, task, source, output, receiver,
          chatPc, chatKind, before, new_message_text, on_token_args,
          finish_reason_seen, chatReturn, parsed, nCalls>>

callerVars == <<handles, cpc, outcome, reading, signals>>
feedVars == <<tokens, new_token, nNextToken, fed>>
loopVars == <<queued_text_matching_stop_on, ret, exit, decoded, sunk,
              nSampled, nForward, nSink, late, writer, feedVars>>
orderVars == <<submitted, started, returned>>
bytesVars == <<messages, into, restored>>
embedVars == <<input, response, embeddings>>
remoteVars == <<bytesVars, embedVars>>
caseVars == <<caseStop, caseQueued, caseStopped, caseChunks>>
topkVars == <<pass, nPasses, logit_probs, logits, candidate>>
wuerstchenVars == <<thread, sender, sent, ran, completed, running, streams,
                    images, dropped, task, source, output, receiver>>
chatVars == <<chatPc, chatKind, before, new_message_text, on_token_args,
              finish_reason_seen, chatReturn, parsed, nCalls>>
extVars == <<wuerstchenVars, chatVars>>
otherVars == <<remoteVars, caseVars, topkVars, extVars>>
llamaVars == <<callerVars, queue, wpc, cur, loopVars, orderVars>>

NoTask == [id |-> 0, kind |-> "none", stop_on |-> None]

Range(s) == {s[i] : i \in 1..Len(s)}

\* A loop condition that never sees the receiver go.
never_closed(id) == FALSE

\* finished.is_closed(): the caller dropped the receiving end.
is_closed(id) == cpc[id] = "dropped"

\* embed_vec has not been called, and has not returned.
NoInput == MaxInputs + 1
NotReturned == [done |-> FALSE, ok |-> FALSE, err |-> "none", val |-> <<>>]

\* No value of the schema type P has been returned.
NoValue == 0

\* No image channel has been made for these settings.
NoStream == [buf |-> <<>>, rx |-> FALSE, tx |-> FALSE]

\* from_bytes has not been called.
NotCalled == [called |-> FALSE, ok |-> FALSE, messages |-> <<>>]

Init ==
    /\ handles = Callers
    /\ cpc = [c \in Callers |-> "idle"]
    /\ outcome = [c \in Callers |-> "none"]
    /\ queue = <<>>
    /\ wpc = "recv"
    /\ cur = NoTask
    /\ queued_text_matching_stop_on = <<>>
    /\ ret = "none"
    /\ exit = "none"
    /\ decoded = <<>>
    /\ sunk = <<>>
    /\ nSampled = 0
    /\ nForward = 0
    /\ nSink = 0
    /\ late = [sample |-> 0, forward |-> 0]
    /\ tokens = 0
    /\ new_token = "none"
    /\ nNextToken = [prompt |-> 0, sampled |-> 0]
    /\ fed = <<>>
    /\ writer = 0
    /\ reading = FALSE
    /\ signals = [c \in Callers |-> 0]
    /\ submitted = <<>>
    /\ started = <<>>
    /\ returned = {}
    /\ messages = <<>>
    /\ into = <<>>
    /\ restored = NotCalled
    /\ input = NoInput
    /\ response = <<>>
    /\ embeddings = NotReturned
    /\ caseStop = <<None, None>>
    /\ caseQueued = <<<<>>, <<>>>>
    /\ caseStopped = <<0, 0>>
    /\ caseChunks = 0
    /\ pass = "none"
    /\ nPasses = 0
    /\ logit_probs = 0
    /\ logits = 0
    /\ candidate = 0
    /\ thread = "starting"
    /\ sender = <<>>
    /\ sent = <<>>
    /\ ran = <<>>
    /\ completed = <<>>
    /\ running = 0
    /\ streams = [id \in 1..MaxSettings |-> NoStream]
    /\ images = <<>>
    /\ dropped = "live"
    /\ task = "none"
    /\ source = 0
    /\ output = <<>>
    /\ receiver = TRUE
    /\ chatPc = "idle"
    /\ chatKind = "none"
    /\ before = <<>>
    /\ new_message_text = <<>>
    /\ on_token_args = <<>>
    /\ finish_reason_seen = FALSE
    /\ chatReturn = "none"
    /\ parsed = NoValue
    /\ nCalls = 0

(***************************************************************************)
(* Callers.                                                                *)
(***************************************************************************)
\* A channel of capacity 1, whose send waits while a task is queued.
BoundedChannelHasRoom(q) == Len(q) < 1

\* tokio::sync::mpsc::unbounded_channel(): a send never waits for room.
ChannelHasRoom(q) == TRUE

\* A receiver that outlives the worker thread.
ReceiverNeverDropped == TRUE

\* task_receiver is owned by the worker thread's closure: it exists until the
\* thread ends, by the end of its loop or by a panic.
ReceiverAlive == wpc \notin {"exited", "panicked"}

\* A caller sends a task on its task_sender and then awaits the completion;
\* with the receiving end gone the send fails and the call ends at once with
\* ModelStopped.
Submit(c, kinds, stops) ==
    /\ c \in handles
    /\ cpc[c] = "idle"
    /\ ChannelHasRoom(queue)
    /\ IF ReceiverAlive
       THEN /\ \E k \in kinds, s \in stops :
                  queue' = Append(queue, [id |-> c, kind |-> k,
                                stop_on |-> IF k = "unstructured" THEN s ELSE None])
            /\ cpc' = [cpc EXCEPT ![c] = "waiting"]
            /\ submitted' = Append(submitted, c)
            /\ UNCHANGED outcome
       ELSE /\ cpc' = [cpc EXCEPT ![c] = "done"]
            /\ outcome' = [outcome EXCEPT ![c] = "ModelStopped"]
            /\ UNCHANGED <<queue, submitted>>
    /\ UNCHANGED <<handles, reading, signals, wpc, cur, loopVars, started, returned>>
    /\ UNCHANGED otherVars

\* A caller that is waiting drops the receiving end of its completion channel.
DropReceiver(c) ==
    /\ cpc[c] = "waiting"
    /\ cpc' = [cpc EXCEPT ![c] = "dropped"]
    /\ UNCHANGED <<handles, outcome, reading, signals, queue, wpc, cur, loopVars,
                   orderVars>>
    /\ UNCHANGED otherVars

\* A caller drops its clone of Llama, and with it one task_sender.
DropHandle(c) ==
    /\ c \in handles
    /\ handles' = handles \ {c}
    /\ UNCHANGED <<cpc, outcome, reading, signals, queue, wpc, cur, loopVars,
                   orderVars>>
    /\ UNCHANGED otherVars

\* An inspector of the session takes the read lock (session.cache.read()),
\* which waits while a writer holds the lock.
AcquireRead ==
    /\ ~reading
    /\ writer = 0
    /\ reading' = TRUE
    /\ UNCHANGED <<handles, cpc, outcome, signals, queue, wpc, cur, loopVars,
                   orderVars>>
    /\ UNCHANGED otherVars

\* The inspector drops its read guard.
ReleaseRead ==
    /\ reading
    /\ reading' = FALSE
    /\ UNCHANGED <<handles, cpc, outcome, signals, queue, wpc, cur, loopVars,
                   orderVars>>
    /\ UNCHANGED otherVars

(***************************************************************************)
(* The worker thread of Llama::from_build.                                 *)
(***************************************************************************)
\* A worker that takes the next task while a forward pass is still to run.
WorkerIdleOrForward == wpc \in {"recv", "forward"}

\* The thread is at `task_receiver.blocking_recv()`: the one place it takes a task.
WorkerIdle == wpc = "recv"

\* A channel that hands out the newest task first.
DequeueNewest(q) == [task |-> q[Len(q)], rest |-> SubSeq(q, 1, Len(q) - 1)]

\* What blocking_recv() takes from the channel, and what it leaves.
Dequeue(q) == [task |-> Head(q), rest |-> Tail(q)]

\* blocking_recv() returns Some(task): the oldest task of the channel.
WorkerRecv ==
    /\ WorkerIdle
    /\ queue # <<>>
    /\ cur' = Dequeue(queue).task
    /\ queue' = Dequeue(queue).rest
    /\ started' = Append(started, cur'.id)
    /\ wpc' = IF cur'.kind = "unstructured" THEN "start" ELSE "runner"
    /\ queued_text_matching_stop_on' = <<>>
    /\ ret' = "none"
    /\ exit' = "none"
    /\ decoded' = <<>>
    /\ sunk' = <<>>
    /\ nSampled' = 0
    /\ nForward' = 0
    /\ nSink' = 0
    /\ late' = [sample |-> 0, forward |-> 0]
    /\ tokens' = 0
    /\ new_token' = "none"
    /\ nNextToken' = [prompt |-> 0, sampled |-> 0]
    /\ fed' = <<>>
    /\ UNCHANGED <<callerVars, writer, submitted, returned>>
    /\ UNCHANGED otherVars

\* blocking_recv() returns None: the channel is empty and every sender is gone.
WorkerExit ==
    /\ WorkerIdle
    /\ queue = <<>>
    /\ handles = {}
    /\ wpc' = "exited"
    /\ UNCHANGED <<callerVars, queue, cur, loopVars, orderVars>>
    /\ UNCHANGED otherVars

\* A worker loop that ends at the first request that returned an error.
AfterSendStopOnError == IF ret = "Ok" THEN "recv" ELSE "exited"

\* After `_ = finished.send(result)` the loop goes back to blocking_recv(),
\* whatever the result was.
AfterSend == "recv"

\* `_ = finished.send(result)`: delivered unless the receiver is gone.
SendResult ==
    /\ wpc = "send"
    /\ IF cpc[cur.id] = "waiting"
       THEN /\ cpc' = [cpc EXCEPT ![cur.id] = "done"]
            /\ outcome' = [outcome EXCEPT ![cur.id] = ret]
       ELSE UNCHANGED <<cpc, outcome>>
    /\ signals' = [signals EXCEPT ![cur.id] = @ + 1]
    /\ returned' = returned \cup {cur.id}
    /\ wpc' = AfterSend
    /\ UNCHANGED <<handles, reading, queue, cur, loopVars, submitted, started>>
    /\ UNCHANGED otherVars

\* runner(&mut model): one forward pass of a structured task.
RunnerStep ==
    /\ wpc = "runner"
    /\ nForward < MaxDispatchSteps
    /\ nForward' = nForward + 1
    /\ UNCHANGED <<callerVars, queue, wpc, cur, queued_text_matching_stop_on, ret,
                   exit, decoded, sunk, nSampled, nSink, late, writer, feedVars,
                   orderVars>>
    /\ UNCHANGED otherVars

\* runner(&mut model) returns; the runner reports to its caller itself.
RunnerReturn ==
    /\ wpc = "runner"
    /\ IF cpc[cur.id] = "waiting"
       THEN /\ cpc' = [cpc EXCEPT ![cur.id] = "done"]
            /\ outcome' = [outcome EXCEPT ![cur.id] = "Ok"]
       ELSE UNCHANGED <<cpc, outcome>>
    /\ returned' = returned \cup {cur.id}
    /\ wpc' = "recv"
    /\ UNCHANGED <<handles, reading, signals, queue, cur, loopVars, submitted,
                   started>>
    /\ UNCHANGED otherVars

\* A panic inside the work function: nothing in the thread catches it, so the
\* thread unwinds and ends; its guards, the task and task_receiver are dropped.
Panic ==
    /\ wpc' = "panicked"
    /\ exit' = "panic"
    /\ writer' = 0
    /\ UNCHANGED ret

\* runner(&mut model) panics.
RunnerPanic ==
    /\ wpc = "runner"
    /\ Panic
    /\ UNCHANGED <<callerVars, queue, cur, queued_text_matching_stop_on,
                   decoded, sunk, nSampled, nForward, nSink, late, feedVars,
                   orderVars>>
    /\ UNCHANGED otherVars

(***************************************************************************)
(* LlamaModel::_infer, step by step.                                       *)
(***************************************************************************)
\* An early return that leaks the write guard of the session.
FailHoldingLock(e) ==
    /\ ret' = e
    /\ exit' = "error"
    /\ wpc' = "send"
    /\ writer' = writer

\* Return Err(e) from _infer; the write guard of the session is dropped.
Fail(e) ==
    /\ ret' = e
    /\ exit' = "error"
    /\ wpc' = "send"
    /\ writer' = 0

\* A step counted as late when the receiver of cur was already dropped.
Late(sample, forward) ==
    IF cpc[cur.id] = "dropped"
    THEN [sample |-> late.sample + sample, forward |-> late.forward + forward]
    ELSE late

\* A forward that hands every slice, the empty one too, to the model.
ForwardCallsModelAlways(n) == TRUE

\* LlamaModel::forward on a slice of n tokens: whether model.forward is
\* called; on an empty slice it bails with "Cannot run model on empty input".
ForwardCallsModel(n) == n > 0

\* A prompt whose tokens are not shown to the detokenizer.
PromptNextTokenCallsNone(n) == 0

\* `for &token in tokens { text_stream.next_token(token)?; }`: the calls of
\* next_token when none of them fails.
PromptNextTokenCalls(n) == n

\* A forward pass that runs the model over every token so far, not over the
\* given slice alone.
FedAllSoFar(slice) ==
    IF ForwardCallsModel(slice.n)
    THEN Append(fed, [slice EXCEPT !.n = slice.n + Len(fed)])
    ELSE fed

\* The slices model.forward has seen, after LlamaModel::forward on slice.
Fed(slice) == IF ForwardCallsModel(slice.n) THEN Append(fed, slice) ELSE fed

\* A prompt phase that runs the forward pass whatever came before.
ReachesForwardAlways(r) == TRUE

\* Whether the prompt phase with outcome r gets as far as the forward pass:
\* the errors of the lock, of encode and of next_token return before it.
ReachesForward(r) == r \in {"Candle", "panic", "ok"}

\* The session write lock, the prompt encoding, the prompt tokens through the
\* detokenizer, and the forward pass over the prompt.
InferStart(prompts) ==
    /\ wpc = "start"
    /\ \E r \in {"Session", "Tokenizer", "TokenOutputStreamError", "Candle",
                  "panic", "ok"}, n \in prompts :
        \E j \in 0..n :
          \* session.cache.write() waits for the readers and writers to leave;
          \* "Session" is its error on a poisoned lock.
          /\ r # "Session" => (writer = 0 /\ ~reading)
          \* j calls of next_token were made: all n, or up to the failing one.
          /\ IF r = "TokenOutputStreamError" THEN j >= 1 ELSE j = n
          \* past the forward pass only when the model was run.
          /\ r \in {"panic", "ok"} => ForwardCallsModel(n)
          /\ tokens' = IF r \in {"Session", "Tokenizer"} THEN 0 ELSE n
          /\ nNextToken' =
                [nNextToken EXCEPT !.prompt =
                    IF r \in {"Session", "Tokenizer"} THEN 0
                    ELSE IF r = "TokenOutputStreamError" THEN j
                    ELSE PromptNextTokenCalls(n)]
          /\ nForward' = IF ReachesForward(r) THEN 1 ELSE 0
          /\ fed' = IF ReachesForward(r)
                    THEN Fed([prompt |-> TRUE, n |-> n, token |-> 0])
                    ELSE fed
          /\ late' = IF ReachesForward(r) THEN Late(0, 1) ELSE late
          /\ CASE r = "ok" -> /\ wpc' = "head"
                              /\ writer' = cur.id
                              /\ UNCHANGED <<ret, exit>>
               [] r = "panic" -> Panic
               [] OTHER -> Fail(r)
    /\ UNCHANGED <<callerVars, queue, cur, queued_text_matching_stop_on,
                   decoded, sunk, nSampled, nSink, new_token, orderVars>>
    /\ UNCHANGED otherVars

\* `'generate: while !finished.is_closed()`
LoopHead ==
    /\ wpc = "head"
    /\ IF is_closed(cur.id)
       THEN wpc' = "flush" /\ exit' = "cancelled"
       ELSE wpc' = "sample" /\ UNCHANGED exit
    /\ UNCHANGED <<callerVars, queue, cur, queued_text_matching_stop_on, ret,
                   decoded, sunk, nSampled, nForward, nSink, late, writer,
                   feedVars, orderVars>>
    /\ UNCHANGED otherVars

\* What sample_token and next_token can give for one iteration.
TokenInputs(texts) ==
    {[k |-> x, text |-> <<>>] :
        x \in {"sample_token_error", "stop_token", "TokenOutputStreamError",
                "no_text"}}
    \cup {[k |-> "text", text |-> t] : t \in texts}

\* A loop that records the error of on_token and goes on.
CallSinkNoAbort(chunk, sinkOk) ==
    /\ sunk' = sunk \o chunk
    /\ nSink' = nSink + 1
    /\ wpc' = "forward"
    /\ writer' = writer
    /\ IF sinkOk
       THEN UNCHANGED <<ret, exit>>
       ELSE ret' = "Sink" /\ exit' = "error"

\* on_token(chunk)?, which returns Ok (sinkOk) or an error.
CallSink(chunk, sinkOk) ==
    /\ sunk' = sunk \o chunk
    /\ nSink' = nSink + 1
    /\ IF sinkOk
       THEN wpc' = "forward" /\ UNCHANGED <<ret, exit, writer>>
       ELSE Fail("Sink")

\* A loop that takes the stop token for a token without text.
NoBreakOnStopToken == wpc' = "forward" /\ exit' = exit

\* `if new_token == stop_token { break; }`
BreakOnStopToken == wpc' = "flush" /\ exit' = "stop_token"

\* The body of the loop from sample_token to the call of on_token.
SampleToken(texts, maxSteps) ==
    /\ wpc = "sample"
    /\ nSampled' = nSampled + 1
    /\ late' = Late(1, 0)
    /\ \E in \in TokenInputs(texts), sinkOk \in BOOLEAN :
          /\ in.k \in {"text", "no_text", "TokenOutputStreamError"} => nSampled < maxSteps
          /\ Len(decoded) + Len(in.text) <= MaxDecoded
          /\ decoded' = decoded \o in.text
          /\ new_token' = CASE in.k = "sample_token_error" -> new_token
                             [] in.k = "stop_token" -> "stop_token"
                             [] OTHER -> "token"
          /\ nNextToken' =
                [nNextToken EXCEPT !.sampled =
                    IF in.k \in {"text", "no_text", "TokenOutputStreamError"}
                    THEN @ + 1 ELSE @]
          /\ CASE in.k \in {"sample_token_error", "TokenOutputStreamError"} ->
                    /\ Fail("TokenOutputStreamError")
                    /\ UNCHANGED <<queued_text_matching_stop_on, sunk, nSink>>
               [] in.k = "stop_token" ->
                    /\ BreakOnStopToken
                    /\ UNCHANGED <<queued_text_matching_stop_on, ret, sunk, nSink,
                                   writer>>
               [] in.k = "no_text" ->
                    /\ wpc' = "forward"
                    /\ UNCHANGED <<queued_text_matching_stop_on, ret, exit, sunk,
                                   nSink, writer>>
               [] in.k = "text" ->
                    LET m == ChunkStep(cur.stop_on, queued_text_matching_stop_on, in.text)
                    IN  /\ queued_text_matching_stop_on' = m.queued
                        /\ IF m.brk
                           THEN /\ wpc' = "flush"
                                /\ exit' = "stop_phrase"
                                /\ UNCHANGED <<ret, sunk, nSink, writer>>
                           ELSE CallSink(m.chunk, sinkOk)
    /\ UNCHANGED <<callerVars, queue, cur, nForward, tokens, fed, orderVars>>
    /\ UNCHANGED otherVars

\* The forward pass over the new token.
ForwardStep ==
    /\ wpc = "forward"
    /\ nForward' = nForward + 1
    /\ fed' = Fed([prompt |-> FALSE, n |-> 1, token |-> nSampled])
    /\ late' = Late(0, 1)
    /\ \E r \in {"ok", "Candle", "panic"} :
          CASE r = "ok" -> wpc' = "head" /\ UNCHANGED <<ret, exit, writer>>
            [] r = "panic" -> Panic
            [] OTHER -> Fail(r)
    /\ UNCHANGED <<callerVars, queue, cur, queued_text_matching_stop_on,
                   decoded, sunk, nSampled, nSink, tokens, new_token, nNextToken,
                   orderVars>>
    /\ UNCHANGED otherVars

\* "Flush the queued text", and Ok(()); the write guard is dropped on return.
Flush ==
    /\ wpc = "flush"
    /\ IF FlushCalls(cur.stop_on, queued_text_matching_stop_on)
       THEN /\ sunk' = sunk \o queued_text_matching_stop_on
            /\ nSink' = nSink + 1
            /\ \E sinkOk \in BOOLEAN : ret' = IF sinkOk THEN "Ok" ELSE "Sink"
       ELSE /\ ret' = "Ok"
            /\ UNCHANGED <<sunk, nSink>>
    /\ wpc' = "send"
    /\ writer' = 0
    /\ UNCHANGED <<callerVars, queue, cur, queued_text_matching_stop_on, exit,
                   decoded, nSampled, nForward, late, feedVars, orderVars>>
    /\ UNCHANGED otherVars

(***************************************************************************)
(* The stop_on block of _infer run twice, on the same letters in two       *)
(* letter cases.                                                           *)
(***************************************************************************)
\* Two texts that differ at most in the case of their letters.
SameLetters(s, t) ==
    Len(s) = Len(t) /\ \A i \in 1..Len(s) : LowerChar(s[i]) = LowerChar(t[i])

\* A request is given a stop phrase; its twin the same phrase in some case.
CaseChoose ==
    /\ caseStop = <<None, None>>
    /\ \E p, q \in TextsOfLen(0, MaxStopLen) :
          /\ SameLetters(p, q)
          /\ caseStop' = <<Some(p), Some(q)>>
    /\ UNCHANGED <<caseQueued, caseStopped, caseChunks>>
    /\ UNCHANGED <<callerVars, queue, wpc, cur, loopVars, orderVars, remoteVars,
                   topkVars, extVars>>

\* One iteration of the loop in both runs: next_token gives each a chunk of
\* the same letters, and each goes through the stop_on block.
CaseChunk ==
    /\ caseStop # <<None, None>>
    /\ caseStopped = <<0, 0>>
    /\ caseChunks < MaxSteps
    /\ \E t, u \in Texts :
          /\ SameLetters(t, u)
          /\ LET m1 == ChunkStep(caseStop[1], caseQueued[1], t)
                 m2 == ChunkStep(caseStop[2], caseQueued[2], u)
             IN  /\ caseQueued' = <<m1.queued, m2.queued>>
                 /\ caseStopped' = <<IF m1.brk THEN caseChunks + 1 ELSE 0,
                                     IF m2.brk THEN caseChunks + 1 ELSE 0>>
    /\ caseChunks' = caseChunks + 1
    /\ UNCHANGED caseStop
    /\ UNCHANGED <<callerVars, queue, wpc, cur, loopVars, orderVars, remoteVars,
                   topkVars, extVars>>

(***************************************************************************)
(* The logits between the forward pass and the sampler.  The entries of    *)
(* the vocabulary are named by the rank of their score in the last forward *)
(* pass, so logit_probs is described by how many entries it holds.         *)
(***************************************************************************)
\* Sizes of the vocabulary: below, at and above the number of logits kept.
VocabSizes == {TopKPrompt - 1 + d : d \in 0..MaxExtraVocab + 1}

\* Logits built from every score, none left out.
keep_every_logit(n, k) == n

\* Logits::try_from_iter_top_k(it, k) over n scores: the k highest are kept,
\* or all n when there are fewer.
try_from_iter_top_k(n, k) == IF n < k THEN n ELSE k

\* The forward pass over the prompt and the logits made of its scores.
TopKPromptPass ==
    /\ pass = "none"
    /\ \E v \in VocabSizes :
          /\ logit_probs' = v
          /\ logits' = try_from_iter_top_k(v, TopKPrompt)
    /\ pass' = "prompt"
    /\ nPasses' = 1
    /\ UNCHANGED candidate
    /\ UNCHANGED <<callerVars, queue, wpc, cur, loopVars, orderVars, remoteVars,
                   caseVars, extVars>>

\* sample_token(&mut sampler, logits, ..): the sampler takes one of the
\* entries of logits.
TopKSample ==
    /\ pass # "none"
    /\ candidate = 0
    /\ \E r \in 1..logits : candidate' = r
    /\ UNCHANGED <<pass, nPasses, logit_probs, logits>>
    /\ UNCHANGED <<callerVars, queue, wpc, cur, loopVars, orderVars, remoteVars,
                   caseVars, extVars>>

\* The forward pass over the new token and the logits made of its scores.
TopKTokenPass ==
    /\ candidate # 0
    /\ nPasses <= MaxDispatchSteps
    /\ \E v \in VocabSizes :
          /\ logit_probs' = v
          /\ logits' = try_from_iter_top_k(v, TopKToken)
    /\ pass' = "token"
    /\ nPasses' = nPasses + 1
    /\ candidate' = 0
    /\ UNCHANGED <<callerVars, queue, wpc, cur, loopVars, orderVars, remoteVars,
                   caseVars, extVars>>

(***************************************************************************)
(* The remote chat session and its bytes: serde_json over                  *)
(* OpenAICompatibleChatSession { messages }.  A byte buffer is a sequence  *)
(* whose elements are the fixed pieces of the JSON text and, inside a      *)
(* string, its characters one by one.                                      *)
(***************************************************************************)
\* The characters a message text is made of: a letter, the quote and the
\* backslash, the two that JSON escapes.
ContentChars == {"a", "\"", "\\"}
Contents == UNION {[1..n -> ContentChars] : n \in 0..MaxContentLen}

\* MessageType as serde writes it.
Roles == {"\"user\"", "\"assistant\""}
ChatHistoryItems == [role : Roles, content : Contents]

\* A writer that copies every character of a string as it is.
EscapeNothing(c) == <<c>>

\* serde_json's string writer: the quote and the backslash get a backslash.
EscapeChar(c) == IF c \in {"\"", "\\"} THEN <<"\\", c>> ELSE <<c>>

RECURSIVE Escape(_)
Escape(str) ==
    IF str = <<>> THEN <<>> ELSE EscapeChar(Head(str)) \o Escape(Tail(str))

\* One ChatHistoryItem as a JSON object.
SerializeItem(m) ==
    <<"{\"role\":", m.role, ",\"content\":", "\"">> \o Escape(m.content)
        \o <<"\"", "}">>

RECURSIVE SerializeItems(_)
SerializeItems(ms) ==
    IF ms = <<>> THEN <<>>
    ELSE SerializeItem(Head(ms))
            \o (IF Tail(ms) = <<>> THEN <<>> ELSE <<",">>)
            \o SerializeItems(Tail(ms))

\* serde_json::to_vec(self) of the derived Serialize.
to_vec(ms) == <<"{\"messages\":[">> \o SerializeItems(ms) \o <<"]}">>

\* The error of serde_json, as a result of from_slice.
JsonError == [ok |-> FALSE, val |-> <<>>, next |-> 0]

\* The body of a JSON string from position i to its closing quote.
RECURSIVE ScanString(_, _, _)
ScanString(b, i, acc) ==
    IF i > Len(b) THEN JsonError
    ELSE IF b[i] = "\"" THEN [ok |-> TRUE, val |-> acc, next |-> i + 1]
    ELSE IF b[i] = "\\"
         THEN IF i + 1 > Len(b) \/ b[i + 1] \notin {"\"", "\\"}
              THEN JsonError
              ELSE ScanString(b, i + 2, Append(acc, b[i + 1]))
    ELSE IF b[i] \in ContentChars THEN ScanString(b, i + 1, Append(acc, b[i]))
    ELSE JsonError

\* One ChatHistoryItem object at position i.
ParseItem(b, i) ==
    IF \/ i + 3 > Len(b)
       \/ b[i] # "{\"role\":"
       \/ b[i + 1] \notin Roles
       \/ b[i + 2] # ",\"content\":"
       \/ b[i + 3] # "\""
    THEN JsonError
    ELSE LET str == ScanString(b, i + 4, <<>>)
         IN  IF ~str.ok \/ str.next > Len(b) \/ b[str.next] # "}"
             THEN JsonError
             ELSE [ok |-> TRUE,
                   val |-> [role |-> b[i + 1], content |-> str.val],
                   next |-> str.next + 1]

\* The elements of the messages array from position i, up to the end of the
\* input; first tells whether an element or the end of the array may come.
RECURSIVE ParseItems(_, _, _, _)
ParseItems(b, i, acc, first) ==
    IF i > Len(b) THEN JsonError
    ELSE IF first /\ b[i] = "]}"
         THEN IF i = Len(b) THEN [ok |-> TRUE, val |-> acc, next |-> i + 1]
              ELSE JsonError
    ELSE LET item == ParseItem(b, i)
         IN  IF ~item.ok \/ item.next > Len(b) THEN JsonError
             ELSE IF b[item.next] = ","
                  THEN ParseItems(b, item.next + 1, Append(acc, item.val), FALSE)
             ELSE IF b[item.next] = "]}" /\ item.next = Len(b)
                  THEN [ok |-> TRUE, val |-> Append(acc, item.val),
                        next |-> item.next + 1]
             ELSE JsonError

\* serde_json::from_slice(bytes) of the derived Deserialize.
from_slice(b) ==
    IF b = <<>> \/ b[1] # "{\"messages\":[" THEN JsonError
    ELSE ParseItems(b, 2, <<>>, TRUE)

\* OpenAICompatibleChatSession::write_to(&self, into).
write_to(ms, buf) == buf \o to_vec(ms)

\* Session::to_bytes(&self): write_to on a new Vec.
to_bytes(ms) == write_to(ms, <<>>)

\* OpenAICompatibleChatSession::from_bytes(bytes).
from_bytes(b) ==
    LET json == from_slice(b)
    IN  [called |-> TRUE, ok |-> json.ok, messages |-> json.val]

\* OpenAICompatibleChatSession::history(&self).
history(ms) == ms

\* session.messages.push(new_message), before the session is written out.
PushMessage ==
    /\ into = <<>>
    /\ Len(messages) < MaxMessages
    /\ \E m \in ChatHistoryItems : messages' = Append(messages, m)
    /\ UNCHANGED <<into, restored>>
    /\ UNCHANGED <<callerVars, queue, wpc, cur, loopVars, orderVars, embedVars,
                   caseVars, topkVars, extVars>>

\* session.write_to(&mut into) on an empty buffer.
WriteTo ==
    /\ into = <<>>
    /\ into' = write_to(messages, into)
    /\ UNCHANGED <<messages, restored>>
    /\ UNCHANGED <<callerVars, queue, wpc, cur, loopVars, orderVars, embedVars,
                   caseVars, topkVars, extVars>>

\* OpenAICompatibleChatSession::from_bytes(&into).
FromBytes ==
    /\ into # <<>>
    /\ ~restored.called
    /\ restored' = from_bytes(into)
    /\ UNCHANGED <<messages, into>>
    /\ UNCHANGED <<callerVars, queue, wpc, cur, loopVars, orderVars, embedVars,
                   caseVars, topkVars, extVars>>

(***************************************************************************)
(* OpenAICompatibleEmbeddingModel::embed_vec.                              *)
(***************************************************************************)
\* EmbeddingData: the index the service labels an embedding with, and the
\* embedding, one of two vectors.
EmbeddingDatas == [index : 0..MaxData, embedding : {"e1", "e2"}]
Responses == UNION {[1..n -> EmbeddingDatas] : n \in 0..MaxData}

\* Position of x in a sequence sorted by index: behind the elements whose
\* index is not greater (sort_by_key is stable).
RECURSIVE InsertByIndex(_, _)
InsertByIndex(sorted, x) ==
    IF sorted = <<>> THEN <<x>>
    ELSE IF x.index < Head(sorted).index THEN <<x>> \o sorted
    ELSE <<Head(sorted)>> \o InsertByIndex(Tail(sorted), x)

\* response.data.sort_by_key(|data| data.index)
RECURSIVE sort_by_index(_)
sort_by_index(data) ==
    IF data = <<>> THEN <<>>
    ELSE InsertByIndex(sort_by_index(SubSeq(data, 1, Len(data) - 1)),
                       data[Len(data)])

\* "Verify that the response is valid": compiled only with debug_assertions,
\* and over the elements the response holds.
ResponseValid(sorted, n, debug_assertions) ==
    debug_assertions => \A i \in 1..Len(sorted) : sorted[i].index = i - 1

\* The caller hands embed_vec its input strings and the request is sent.
EmbedVecRequest ==
    /\ input = NoInput
    /\ \E n \in 0..MaxInputs : input' = n
    /\ UNCHANGED <<response, embeddings>>
    /\ UNCHANGED <<callerVars, queue, wpc, cur, loopVars, orderVars, bytesVars,
                   caseVars, topkVars, extVars>>

\* The rest of embed_vec, from the response on: the request or the decoding
\* of the response fails, or data is sorted, checked and collected.
EmbedVecResponse ==
    /\ input # NoInput
    /\ ~embeddings.done
    /\ \E data \in Responses, debug_assertions \in BOOLEAN,
          r \in {"ok", "ReqwestError"} :
          IF r # "ok"
          THEN /\ embeddings' = [done |-> TRUE, ok |-> FALSE, err |-> r, val |-> <<>>]
               /\ UNCHANGED response
          ELSE LET sorted == sort_by_index(data)
               IN  /\ response' = data
                   /\ embeddings' =
                        IF ResponseValid(sorted, input, debug_assertions)
                        THEN [done |-> TRUE, ok |-> TRUE, err |-> "none",
                              val |-> [i \in 1..Len(sorted) |-> sorted[i].embedding]]
                        ELSE [done |-> TRUE, ok |-> FALSE,
                              err |-> "InvalidResponse", val |-> <<>>]
    /\ UNCHANGED input
    /\ UNCHANGED <<callerVars, queue, wpc, cur, loopVars, orderVars, bytesVars,
                   caseVars, topkVars, extVars>>

(***************************************************************************)
(* The remote chat calls: add_messages_with_callback and                   *)
(* add_message_with_callback_and_constraints of OpenAICompatibleChatModel, *)
(* each reading the server-sent events of one response.                    *)
(***************************************************************************)
\* delta.content of a choice: text of a chunk.
ChatChunks == {<<>>, <<"1">>, <<"a">>}

FinishReasons == {"content_filter", "function_call", "length", "stop"}

\* message.data of an event: JSON that does not deserialize, a response
\* without choices, or a response and its first choice.
ChatDatas ==
    [valid : {FALSE}, choices : {0}, refusal : {FALSE},
     finish_reason : {None}, content : {None}]
    \cup [valid : {TRUE}, choices : {0}, refusal : {FALSE},
          finish_reason : {None}, content : {None}]
    \cup [valid : {TRUE}, choices : {1}, refusal : BOOLEAN,
          finish_reason : {None} \cup {Some(f) : f \in FinishReasons},
          content : {None} \cup {Some(c) : c \in ChatChunks}]

\* What event_source.next().await gives: an event, an error, or the end.
ChatEvents ==
    [kind : {"Open", "Error", "End"}, data : {CHOOSE d \in ChatDatas : ~d.valid}]
    \cup [kind : {"Message"}, data : ChatDatas]

RECURSIVE Concat(_)
\* The chunks of a sequence appended to one another.
Concat(chunks) ==
    IF chunks = <<>> THEN <<>> ELSE Head(chunks) \o Concat(Tail(chunks))

RECURSIVE DecimalValue(_)
DecimalValue(digits) ==
    IF digits = <<>> THEN 0
    ELSE 10 * DecimalValue(SubSeq(digits, 1, Len(digits) - 1)) + 1

\* serde_json::from_str::<P>(text) for a schema type P that is a number: the
\* text must be digits and nothing else.
from_str(text) ==
    IF text # <<>> /\ \A i \in 1..Len(text) : text[i] = "1"
    THEN [ok |-> TRUE, value |-> DecimalValue(text)]
    ELSE [ok |-> FALSE, value |-> NoValue]

\* ChatHistoryItem::new(MessageType::UserMessage, new_message_text)
NewMessage(text) == [role |-> "\"user\"", content |-> text]

\* `return Err(..)` and every `?` of the two calls.
ReturnErr(e) ==
    /\ chatPc' = "returned"
    /\ chatReturn' = e
    /\ UNCHANGED <<messages, parsed>>

\* After the loop of add_messages_with_callback: the push, and Ok(()).
PushAndReturn ==
    /\ chatPc' = "returned"
    /\ chatReturn' = "Ok"
    /\ messages' = Append(messages, NewMessage(new_message_text))
    /\ UNCHANGED parsed

\* `_ => return Ok(())` of add_messages_with_callback.
ReturnOkOnFinishReason ==
    /\ chatPc' = "returned"
    /\ chatReturn' = "Ok"
    /\ UNCHANGED <<messages, parsed>>

\* The message pushed before its text is parsed.
PushThenParse ==
    LET result == from_str(new_message_text) IN
    /\ chatPc' = "returned"
    /\ messages' = Append(messages, NewMessage(new_message_text))
    /\ IF result.ok
       THEN chatReturn' = "Ok" /\ parsed' = result.value
       ELSE chatReturn' = "DeserializeError" /\ UNCHANGED parsed

\* After the loop of add_message_with_callback_and_constraints: from_str()?,
\* the push, and Ok(result).
ParseThenPush ==
    LET result == from_str(new_message_text) IN
    IF result.ok
    THEN /\ chatPc' = "returned"
         /\ chatReturn' = "Ok"
         /\ parsed' = result.value
         /\ messages' = Append(messages, NewMessage(new_message_text))
    ELSE ReturnErr("DeserializeError")

\* A finish reason that leaves the loop running.
ContinueOnFinishReason ==
    UNCHANGED <<chatPc, chatReturn, messages, parsed>>

\* `_ => break` of add_message_with_callback_and_constraints.
BreakOnFinishReason == ParseThenPush

\* One of the two calls is made on the session.
ChatCall(kind) ==
    /\ chatPc \in {"idle", "returned"}
    /\ nCalls < MaxCalls
    /\ nCalls' = nCalls + 1
    /\ chatPc' = "streaming"
    /\ chatKind' = kind
    /\ before' = messages
    /\ new_message_text' = <<>>
    /\ on_token_args' = <<>>
    /\ finish_reason_seen' = FALSE
    /\ chatReturn' = "none"
    /\ parsed' = NoValue
    /\ UNCHANGED <<messages, into, restored>>
    /\ UNCHANGED <<llamaVars, embedVars, caseVars, topkVars, wuerstchenVars>>

\* One turn of `while let Some(event) = event_source.next().await` in the
\* call of the given kind, with what on_token returns if it is called.
ChatEvent(kind) ==
    /\ chatPc = "streaming"
    /\ chatKind = kind
    /\ \E event \in ChatEvents, on_token_ok \in BOOLEAN :
          LET d == event.data
              has_finish == event.kind = "Message" /\ d.valid /\ d.choices > 0
                            /\ ~d.refusal /\ d.finish_reason.some
              has_content == event.kind = "Message" /\ d.valid /\ d.choices > 0
                             /\ ~d.refusal /\ ~d.finish_reason.some
                             /\ d.content.some
          IN  /\ has_content => Len(on_token_args) < MaxChunks
              /\ finish_reason_seen' = (finish_reason_seen \/ has_finish)
              /\ on_token_args' = IF has_content
                                  THEN Append(on_token_args, d.content.val)
                                  ELSE on_token_args
              /\ new_message_text' = IF has_content /\ on_token_ok
                                     THEN new_message_text \o d.content.val
                                     ELSE new_message_text
              /\ IF event.kind = "End"
                 THEN IF kind = "unstructured" THEN PushAndReturn
                                               ELSE ParseThenPush
                 ELSE IF event.kind = "Error"
                 THEN ReturnErr("EventSourceError")
                 ELSE IF event.kind = "Open"
                 THEN UNCHANGED <<chatPc, chatReturn, messages, parsed>>
                 ELSE IF ~d.valid
                 THEN ReturnErr("DeserializeError")
                 ELSE IF d.choices = 0
                 THEN ReturnErr("NoMessageChoices")
                 ELSE IF d.refusal
                 THEN ReturnErr("Refusal")
                 ELSE IF has_finish
                 THEN IF d.finish_reason.val = "content_filter"
                      THEN ReturnErr("Refusal")
                      ELSE IF d.finish_reason.val = "function_call"
                      THEN ReturnErr("FunctionCallsNotSupported")
                      ELSE IF kind = "unstructured"
                      THEN ReturnOkOnFinishReason
                      ELSE BreakOnFinishReason
                 ELSE IF has_content /\ ~on_token_ok
                 THEN ReturnErr("on_token")
                 ELSE UNCHANGED <<chatPc, chatReturn, messages, parsed>>
    /\ UNCHANGED <<chatKind, before, nCalls, into, restored>>
    /\ UNCHANGED <<llamaVars, embedVars, caseVars, topkVars, wuerstchenVars>>

(***************************************************************************)
(* Wuerstchen: the handle, its worker thread and the task of generate.     *)
(* Settings are named 1, 2, .. in the order run_into is called with them;  *)
(* image k of settings id is <<id, k>>.                                    *)
(***************************************************************************)
\* WuerstchenMessage::Kill in the channel; Generate(settings, ..) is the
\* number of the settings.
Kill == 0

\* The worker thread has ended, and with it the receiver of the channel.
Terminated == thread \in {"returned", "panicked"}

\* The worker thread unwinds: the receiver and the messages still in the
\* channel are dropped, and with them the image senders they hold.
WorkerPanics ==
    /\ thread' = "panicked"
    /\ sender' = <<>>
    /\ streams' = [id \in 1..MaxSettings |->
                      IF id = running \/ id \in Range(sender)
                      THEN [streams[id] EXCEPT !.tx = FALSE]
                      ELSE streams[id]]

\* Wuerstchen::run(settings): a new image channel, and run_into, which
\* ignores the result of the send.
Run(id) ==
    /\ sent' = Append(sent, id)
    /\ IF Terminated
       THEN /\ streams' = [streams EXCEPT ![id] =
                                [buf |-> <<>>, rx |-> TRUE, tx |-> FALSE]]
            /\ UNCHANGED sender
       ELSE /\ streams' = [streams EXCEPT ![id] =
                                [buf |-> <<>>, rx |-> TRUE, tx |-> TRUE]]
            /\ sender' = Append(sender, id)

\* A holder of the handle calls run.
CallRun ==
    /\ task = "none"
    /\ dropped = "live"
    /\ Len(sent) < MaxSettings
    /\ Run(Len(sent) + 1)
    /\ UNCHANGED <<thread, ran, completed, running, images, dropped, task,
                   source, output, receiver>>
    /\ UNCHANGED <<llamaVars, remoteVars, caseVars, topkVars, chatVars>>

\* The holder of an image stream returned by run drops it.
DropImageStream(id) ==
    /\ task = "none"
    /\ streams[id].rx
    /\ streams' = [streams EXCEPT ![id].rx = FALSE]
    /\ UNCHANGED <<thread, sender, sent, ran, completed, running, images,
                   dropped, task, source, output, receiver>>
    /\ UNCHANGED <<llamaVars, remoteVars, caseVars, topkVars, chatVars>>

\* The spawned thread builds its runtime and enters block_on.
WorkerBuildRuntime ==
    /\ thread = "starting"
    /\ thread' = "recv"
    /\ UNCHANGED <<sender, streams, sent, ran, completed, running, images,
                   dropped, task, source, output, receiver>>
    /\ UNCHANGED <<llamaVars, remoteVars, caseVars, topkVars, chatVars>>

\* `while let Ok(message) = tx.recv()` and the match on the message.
WorkerRecvMessage ==
    /\ thread = "recv"
    /\ sender # <<>>
    /\ sender' = Tail(sender)
    /\ IF Head(sender) = Kill
       THEN /\ thread' = "returned"
            /\ UNCHANGED <<ran, running>>
       ELSE /\ thread' = "run"
            /\ running' = Head(sender)
            /\ ran' = Append(ran, Head(sender))
    /\ UNCHANGED <<sent, completed, streams, images, dropped, task, source,
                   output, receiver>>
    /\ UNCHANGED <<llamaVars, remoteVars, caseVars, topkVars, chatVars>>

\* model.run(input, result): it sends an image while the receiver of result
\* lives, or returns, or panics.
WorkerRun ==
    /\ thread = "run"
    /\ \E r \in {"image", "return", "panic"} :
          CASE r = "image" ->
                 LET k == Len(streams[running].buf) + 1
                     n == Cardinality({i \in 1..Len(images) : images[i][1] = running})
                 IN  /\ streams[running].rx
                     /\ n < MaxImages
                     /\ streams' = [streams EXCEPT ![running].buf =
                                        Append(@, <<running, n + 1>>)]
                     /\ images' = Append(images, <<running, n + 1>>)
                     /\ UNCHANGED <<thread, sender, completed, running>>
            [] r = "return" ->
                 /\ thread' = "recv"
                 /\ streams' = [streams EXCEPT ![running].tx = FALSE]
                 /\ completed' = Append(completed, running)
                 /\ running' = 0
                 /\ UNCHANGED <<sender, images>>
            [] r = "panic" ->
                 /\ WorkerPanics
                 /\ UNCHANGED <<completed, running, images>>
    /\ UNCHANGED <<sent, ran, dropped, task, source, output, receiver>>
    /\ UNCHANGED <<llamaVars, remoteVars, caseVars, topkVars, chatVars>>

\* self.sender.send(WuerstchenMessage::Kill).unwrap()
SendKill ==
    IF Terminated
    THEN dropped' = "panicked" /\ UNCHANGED sender
    ELSE sender' = Append(sender, Kill) /\ dropped' = "joining"

\* Drop for Wuerstchen, first statement: by the holder of the handle, or by
\* the task of generate when it ends.
DropSend ==
    /\ dropped = "live"
    /\ task \in {"none", "ended"}
    /\ SendKill
    /\ UNCHANGED <<thread, sent, ran, completed, running, streams, images,
                   task, source, output, receiver>>
    /\ UNCHANGED <<llamaVars, remoteVars, caseVars, topkVars, chatVars>>

\* self.thread.take().unwrap().join().unwrap()
DropJoin ==
    /\ dropped = "joining"
    /\ Terminated
    /\ dropped' = IF thread = "returned" THEN "returned" ELSE "panicked"
    /\ UNCHANGED <<thread, sender, sent, ran, completed, running, streams,
                   images, task, source, output, receiver>>
    /\ UNCHANGED <<llamaVars, remoteVars, caseVars, topkVars, chatVars>>

\* stream.generate(model): the task is spawned with the stream of settings
\* and the handle.
Generate ==
    /\ task = "none"
    /\ dropped = "live"
    /\ sent = <<>>
    /\ task' = "outer"
    /\ \E n \in 0..MaxSettings : source' = n
    /\ UNCHANGED <<thread, sender, sent, ran, completed, running, streams,
                   images, dropped, output, receiver>>
    /\ UNCHANGED <<llamaVars, remoteVars, caseVars, topkVars, chatVars>>

\* `while let Some(source) = stream.next().await` and model.run(source).
TaskNextSource ==
    /\ task = "outer"
    /\ IF source = 0
       THEN /\ task' = "ended"
            /\ UNCHANGED <<source, sent, sender, streams>>
       ELSE /\ task' = "inner"
            /\ source' = source - 1
            /\ Run(Len(sent) + 1)
    /\ UNCHANGED <<thread, ran, completed, running, images, dropped, output,
                   receiver>>
    /\ UNCHANGED <<llamaVars, remoteVars, caseVars, topkVars, chatVars>>

\* A send to the output stream that cannot fail.
SendNeverFails == FALSE

\* sender.send(segment) is Err: the receiver of the output stream is gone.
SendFails == ~receiver

\* `while let Some(segment) = stream.next().await` on the image stream of the
\* settings sent last, and sender.send(segment).
TaskNextSegment ==
    /\ task = "inner"
    /\ LET id == Len(sent) IN
       IF streams[id].buf # <<>>
       THEN IF SendFails
            THEN /\ task' = "ended"
                 /\ streams' = [streams EXCEPT ![id] = [@ EXCEPT !.rx = FALSE,
                                                                 !.buf = <<>>]]
                 /\ UNCHANGED output
            ELSE /\ output' = Append(output, Head(streams[id].buf))
                 /\ streams' = [streams EXCEPT ![id].buf = Tail(@)]
                 /\ UNCHANGED task
       ELSE /\ ~streams[id].tx
            /\ task' = "outer"
            /\ streams' = [streams EXCEPT ![id].rx = FALSE]
            /\ UNCHANGED output
    /\ UNCHANGED <<thread, sender, sent, ran, completed, running, images,
                   dropped, source, receiver>>
    /\ UNCHANGED <<llamaVars, remoteVars, caseVars, topkVars, chatVars>>

\* The consumer drops the output stream.
DropOutput ==
    /\ task # "none"
    /\ receiver
    /\ receiver' = FALSE
    /\ UNCHANGED <<thread, sender, sent, ran, completed, running, streams,
                   images, dropped, task, source, output>>
    /\ UNCHANGED <<llamaVars, remoteVars, caseVars, topkVars, chatVars>>

(***************************************************************************)
(* Specifications.                                                         *)
(***************************************************************************)
Worker ==
    \/ WorkerRecv
    \/ WorkerExit
    \/ InferStart(DispatchPrompts)
    \/ LoopHead
    \/ ForwardStep
    \/ Flush
    \/ SendResult
    \/ RunnerStep
    \/ RunnerReturn
    \/ RunnerPanic

\* The dispatcher with NumCallers concurrent callers.
Next ==
    \/ \E c \in Callers : Submit(c, {"unstructured", "structured"}, DispatchStops)
    \/ \E c \in Callers : DropReceiver(c)
    \/ \E c \in Callers : DropHandle(c)
    \/ Worker
    \/ SampleToken(DispatchTexts, MaxDispatchSteps)

Spec == Init /\ [][Next]_vars

\* One unstructured request through the decode loop, with every stop phrase
\* and every decoded text within the bounds.
InferNext ==
    \/ Submit(1, {"unstructured"}, StopPhrases)
    \/ DropReceiver(1)
    \/ WorkerRecv
    \/ InferStart(DispatchPrompts)
    \/ LoopHead
    \/ SampleToken(Texts, MaxSteps)
    \/ ForwardStep
    \/ Flush
    \/ SendResult

InferSpec == Init /\ [][InferNext]_vars

\* Unstructured requests of NumCallers callers on one session that an
\* inspector reads concurrently.
SessionNext ==
    \/ \E c \in Callers : Submit(c, {"unstructured"}, DispatchStops)
    \/ \E c \in Callers : DropReceiver(c)
    \/ AcquireRead
    \/ ReleaseRead
    \/ WorkerRecv
    \/ InferStart(DispatchPrompts)
    \/ LoopHead
    \/ SampleToken({<<"a">>}, MaxDispatchSteps)
    \/ ForwardStep
    \/ Flush
    \/ SendResult

SessionSpec == Init /\ [][SessionNext]_vars

\* One unstructured request with every length of the encoded prompt, the
\* empty one included, and the smaller inputs in the decode loop.
PromptNext ==
    \/ Submit(1, {"unstructured"}, DispatchStops)
    \/ DropReceiver(1)
    \/ WorkerRecv
    \/ InferStart(Prompts)
    \/ LoopHead
    \/ SampleToken(DispatchTexts, MaxDispatchSteps)
    \/ ForwardStep
    \/ Flush
    \/ SendResult

PromptSpec == Init /\ [][PromptNext]_vars

\* One unstructured request through the decode loop with the longer stop
\* phrases.
OrderNext ==
    \/ Submit(1, {"unstructured"}, LongStopPhrases)
    \/ DropReceiver(1)
    \/ WorkerRecv
    \/ InferStart(DispatchPrompts)
    \/ LoopHead
    \/ SampleToken(Texts, MaxSteps)
    \/ ForwardStep
    \/ Flush
    \/ SendResult

OrderSpec == Init /\ [][OrderNext]_vars

\* The logits of one request from forward pass to sampler.
TopKNext ==
    \/ TopKPromptPass
    \/ TopKSample
    \/ TopKTokenPass

TopKSpec == Init /\ [][TopKNext]_vars

\* Remote chat calls on one session, one after another.
ChatNext ==
    \/ \E kind \in {"unstructured", "structured"} : ChatCall(kind)
    \/ \E kind \in {"unstructured", "structured"} : ChatEvent(kind)

ChatSpec == Init /\ [][ChatNext]_vars

\* One Wuerstchen: used through run and dropped, or given to generate.
WuerstchenNext ==
    \/ CallRun
    \/ \E id \in 1..MaxSettings : DropImageStream(id)
    \/ WorkerBuildRuntime
    \/ WorkerRecvMessage
    \/ WorkerRun
    \/ DropSend
    \/ DropJoin
    \/ Generate
    \/ TaskNextSource
    \/ TaskNextSegment
    \/ DropOutput

WuerstchenSpec == Init /\ [][WuerstchenNext]_vars

\* The stop_on block on two runs of the same letters in different cases.
CaseNext ==
    \/ CaseChoose
    \/ CaseChunk

CaseSpec == Init /\ [][CaseNext]_vars

\* A remote chat session that is filled, written to bytes and read back.
SessionBytesNext ==
    \/ PushMessage
    \/ WriteTo
    \/ FromBytes

SessionBytesSpec == Init /\ [][SessionBytesNext]_vars

\* One call of embed_vec against the remote service.
EmbedNext ==
    \/ EmbedVecRequest
    \/ EmbedVecResponse

EmbedSpec == Init /\ [][EmbedNext]_vars

(***************************************************************************)
(* Properties of the dispatcher (specification Spec).                      *)
(***************************************************************************)
\* The tasks the worker has dequeued and whose work has not returned yet.
Running == {r \in Range(started) : r \notin returned}

\* C1: at most one task, unstructured decode loop or structured runner, is
\* executing against the model at any instant.
C1_AtMostOneTaskRunning == Cardinality(Running) <= 1

\* C1 witness: a task is in its decode loop or runner, after a forward pass,
\* while another caller's task waits in the channel.
C1_Witness ==
    /\ Cardinality(Running) = 1
    /\ nForward > 0
    /\ wpc \in {"head", "sample", "forward", "runner"}
    /\ queue # <<>>

\* C2: tasks are started in the order they were enqueued, and every task
\* started before the latest one has returned before the latest one started.
C2_FifoRunToCompletion ==
    /\ IsPrefix(started, submitted)
    /\ \A i \in 1..(Len(started) - 1) : started[i] \in returned

\* C2 witness: two tasks were enqueued, the second is being run and the first
\* has returned.
C2_Witness ==
    /\ Len(submitted) >= 2
    /\ Len(started) >= 2
    /\ started[1] \in returned
    /\ wpc \in {"head", "sample", "forward", "runner"}

\* C3: a sink invocation or a forward pass of one request happens only when
\* every other request dequeued so far has returned and been signalled, so the
\* chunk streams of two requests never interleave.
C3_NoInterleaving ==
    [][(nSink' = nSink + 1 \/ nForward' = nForward + 1)
         => \A y \in Range(started') \ {cur'.id} : y \in returned']_vars

\* C3 witness: the second request has run a forward pass and invoked its sink
\* after the first request delivered its result.
C3_Witness ==
    /\ Len(started) >= 2
    /\ outcome[started[1]] = "Ok"
    /\ cur.id = started[2]
    /\ nForward > 0
    /\ nSink > 0

\* C4: a caller that holds a handle and has a request to submit can always
\* enqueue it at once, whatever the length of the queue and wherever the worker
\* is.
C4_SubmitNeverBlocks ==
    \A c \in Callers :
        (c \in handles /\ cpc[c] = "idle")
            => ENABLED Submit(c, {"unstructured", "structured"}, DispatchStops)

\* C4 witness: a caller can submit while the worker is in the middle of a
\* decode loop, between the sink invocation and the forward pass.
C4_Witness ==
    /\ wpc = "forward"
    /\ nSink > 0
    /\ \E c \in Callers :
          /\ c \in handles
          /\ cpc[c] = "idle"
          /\ ENABLED Submit(c, {"unstructured", "structured"}, DispatchStops)

(***************************************************************************)
(* Properties of the decode loop (specification InferSpec).                *)
(***************************************************************************)
\* The configured stop phrase of the running request, lower-cased.
P == to_lowercase(cur.stop_on.val)

HasStopPhrase == cur.kind = "unstructured" /\ cur.stop_on.some /\ Len(cur.stop_on.val) > 0

\* The text before the first occurrence of p in s, compared case-insensitively.
BeforeFirst(s, p) ==
    LET at == CHOOSE i \in 0..Len(s) :
                  /\ i + Len(p) <= Len(s)
                  /\ SubSeq(to_lowercase(s), i + 1, i + Len(p)) = p
                  /\ \A j \in 0..(i - 1) :
                        SubSeq(to_lowercase(s), j + 1, j + Len(p)) # p
    IN  SubSeq(s, 1, at)

\* C5: without a stop phrase, at every point of the decode loop the chunks
\* delivered to the sink concatenate to exactly the text decoded so far.
C5_NoStopPhraseDeliversAll ==
    (cur.kind = "unstructured" /\ ~cur.stop_on.some) => sunk = decoded

\* C5 witness: a request without a stop phrase ended on the stop token after
\* at least two chunks with upper-case and lower-case letters were delivered.
C5_Witness ==
    /\ cur.kind = "unstructured"
    /\ ~cur.stop_on.some
    /\ exit = "stop_token"
    /\ wpc = "send"
    /\ nSink >= 2
    /\ Len(decoded) >= 3
    /\ to_lowercase(decoded) # decoded

\* C6: with a stop phrase configured, the concatenation of the chunks
\* delivered so far (every one accepted by the sink) never contains the
\* phrase, compared case-insensitively.
C6_SunkNeverContainsStopPhrase ==
    (HasStopPhrase /\ ret # "Sink") => ~Contains(to_lowercase(sunk), P)

\* C7: when the decoded text contains the stop phrase and generation ended
\* normally, the delivered chunks concatenate to the decoded text that precedes
\* the first occurrence of the phrase.
C7_TruncatedExactlyBeforeStopPhrase ==
    (/\ HasStopPhrase
     /\ wpc = "send"
     /\ ret = "Ok"
     /\ exit \in {"stop_phrase", "stop_token"}
     /\ Contains(to_lowercase(decoded), P))
        => sunk = BeforeFirst(decoded, P)

\* C8: when the decoded text never contains the stop phrase and generation
\* ended on the stop token, the delivered chunks concatenate to the decoded
\* text character for character.
C8_UnmatchedTextFlushedVerbatim ==
    (/\ HasStopPhrase
     /\ wpc = "send"
     /\ ret = "Ok"
     /\ exit = "stop_token"
     /\ ~Contains(to_lowercase(decoded), P))
        => sunk = decoded

\* C9: with a stop phrase configured, queued_text_matching_stop_on is never
\* longer than the phrase.
C9_QueuedNeverLongerThanStopPhrase ==
    (cur.kind = "unstructured" /\ cur.stop_on.some)
        => Len(queued_text_matching_stop_on) <= Len(cur.stop_on.val)

\* C10: once the decoded text contains the stop phrase, whatever the chunk
\* boundaries, the loop has stopped: it does not go on to another forward pass
\* or sample.
C10_StopsWhenStopPhraseComplete ==
    (HasStopPhrase /\ wpc \in {"forward", "head", "sample"})
        => ~Contains(to_lowercase(decoded), P)

\* C11: once the stop phrase has been matched (the loop was left by the break
\* of the stop_on block) no token is sampled, no forward pass runs, nothing
\* more reaches on_token, what was delivered leaves out at least the length of
\* the phrase from the decoded text, and the result returned and delivered is Ok.
C11_StopPhraseEndsNormally ==
    [][/\ exit' = "stop_phrase" =>
            Len(sunk') + Len(cur'.stop_on.val) <= Len(decoded')
       /\ (exit = "stop_phrase" /\ started' = started) =>
            /\ nSampled' = nSampled
            /\ nForward' = nForward
            /\ nSink' = nSink
            /\ sunk' = sunk
            /\ wpc' = "send" => ret' = "Ok"
            /\ outcome'[cur.id] # outcome[cur.id] => outcome'[cur.id] = "Ok"]_vars

\* C11 witness: a request whose stop phrase was matched after text had been
\* delivered and a prefix of the phrase buffered, and whose caller got Ok.
C11_Witness ==
    /\ exit = "stop_phrase"
    /\ wpc = "recv"
    /\ cur.stop_on.some
    /\ Len(cur.stop_on.val) = 2
    /\ Len(sunk) > 0
    /\ nForward > 1
    /\ outcome[cur.id] = "Ok"

\* C12: after the caller dropped its receiver, at most one more sample_token
\* and one more forward pass run for its request, wherever in the request the
\* drop happened.
C12_CancellationWithinOneStep ==
    cur.kind = "unstructured" => (late.sample <= 1 /\ late.forward <= 1)

\* C12 witness: the drop came while the loop was between its head and the
\* sample; one sample and one forward pass later the loop saw it and left.
C12_Witness ==
    /\ exit = "cancelled"
    /\ late.sample = 1
    /\ late.forward = 1
    /\ nForward > 1

\* C13: once the head of the loop has seen the receiver dropped, no token is
\* sampled, no forward pass runs, on_token is not invoked again, and _infer
\* returns Ok.
C13_CancelStopsWithoutSinkOrError ==
    [][(exit = "cancelled" /\ started' = started) =>
            /\ nSampled' = nSampled
            /\ nForward' = nForward
            /\ nSink' = nSink
            /\ wpc' = "send" => ret' = "Ok"]_vars

\* C14: once a call of on_token has returned an error, no token is sampled, no
\* forward pass runs, on_token is not invoked again, what was delivered stays
\* as it was, and that error is what _infer returns and the caller receives.
C14_SinkErrorAborts ==
    [][(ret = "Sink" /\ started' = started) =>
            /\ nSampled' = nSampled
            /\ nForward' = nForward
            /\ nSink' = nSink
            /\ sunk' = sunk
            /\ ret' = "Sink"
            /\ wpc' \in {"send", "recv"}
            /\ outcome'[cur.id] # outcome[cur.id] => outcome'[cur.id] = "Sink"]_vars

\* C14 witness: on_token failed inside the loop on its second call or later,
\* after text had been delivered, and the caller received the sink error.
C14_Witness ==
    /\ ret = "Sink"
    /\ exit = "error"
    /\ nSink >= 2
    /\ Len(sunk) > 1
    /\ wpc = "recv"
    /\ outcome[cur.id] = "Sink"

\* C15: an unstructured request the worker has dequeued and is through with
\* (the thread is back at blocking_recv, or has ended) was signalled on its
\* completion channel exactly once, and no request is signalled twice.
C15_ExactlyOneTerminalSignal ==
    /\ \A c \in Callers : signals[c] <= 1
    /\ (cur.kind = "unstructured" /\ wpc \in {"recv", "exited", "panicked"})
            => signals[cur.id] = 1

\* C16: a panic of a request's work function does not end the worker thread:
\* after it the thread is sending the failure or is back at blocking_recv, and
\* an unstructured request it is through with has been signalled.
C16_PanicCapturedWorkerContinues ==
    exit = "panic" =>
        /\ wpc \in {"send", "recv", "start", "runner", "head", "sample",
                     "forward", "flush"}
        /\ (cur.kind = "unstructured" /\ wpc = "recv") => signals[cur.id] = 1

\* C17: when _infer has returned an error for a request, the steps that follow
\* change no other request's result or signal, deliver only that error to the
\* request's own caller, drop nothing from the channel, and leave the worker
\* at the send or back at blocking_recv, never ended.
C17_ErrorAffectsNoOtherRequest ==
    [][(wpc = "send" /\ ret \notin {"none", "Ok"}) =>
            /\ wpc' \in {"send", "recv"}
            /\ \A c \in Callers \ {cur.id} :
                    outcome'[c] = outcome[c] /\ signals'[c] = signals[c]
            /\ Len(queue') >= Len(queue)
            /\ outcome'[cur.id] \in {outcome[cur.id], ret}]_vars

\* C17 witness: the first request ended with an error value, and the request
\* queued behind it then ran its decode loop and delivered Ok to its caller.
C17_Witness ==
    /\ Len(started) = 2
    /\ outcome[started[1]] \in {"Session", "Tokenizer", "TokenOutputStreamError",
                                "Candle", "SamplerError", "Sink"}
    /\ cur.id = started[2]
    /\ cur.kind = "unstructured"
    /\ nSink > 0
    /\ outcome[started[2]] = "Ok"

\* C18: the worker thread ends by leaving its loop only when every clone of
\* Llama is gone, and once every clone is gone and the thread has ended, every
\* request that had been enqueued was taken from the channel and finished.
C18_ClosedQueueDrainsThenExits ==
    /\ wpc = "exited" => handles = {}
    /\ (handles = {} /\ wpc \in {"exited", "panicked"}) =>
            /\ queue = <<>>
            /\ Range(submitted) \subseteq returned

\* C19: a caller that submits once the worker thread, and task_receiver with
\* it, is gone ends at once with ModelStopped: nothing is enqueued, nothing is
\* started, on_token is not invoked, and the caller is not left waiting; a
\* request rejected so is never among those the worker ran.
C19_SubmitAfterCloseRejected ==
    [][\A c \in Callers :
        /\ (wpc \in {"exited", "panicked"} /\ cpc[c] = "idle" /\ cpc'[c] # "idle") =>
                /\ cpc'[c] = "done"
                /\ outcome'[c] = "ModelStopped"
                /\ queue' = queue
                /\ started' = started
                /\ nSink' = nSink
        /\ outcome'[c] = "ModelStopped" =>
                (c \notin Range(submitted') /\ c \notin Range(started'))]_vars

\* C19 witness: the thread has ended with a task of one caller, and another
\* caller that submitted afterwards holds ModelStopped.
C19_Witness ==
    /\ wpc = "panicked"
    /\ \E c \in Callers :
          /\ outcome[c] = "ModelStopped"
          /\ cpc[c] = "done"
          /\ c # cur.id
          /\ c \in handles

(***************************************************************************)
(* Properties of the session lock (specification SessionSpec).             *)
(***************************************************************************)
\* C20: from the prompt to the return of _infer the running request is the
\* writer of the session and no inspector reads it, and outside _infer, on
\* whichever path it was left, nobody holds the write lock.
C20_ExclusiveWriteForWholeLoop ==
    /\ wpc \in {"head", "sample", "forward", "flush"} =>
            (writer = cur.id /\ ~reading)
    /\ wpc \notin {"head", "sample", "forward", "flush"} => writer = 0

\* C20 witness: a first request left _infer by an error of on_token, and the
\* request queued behind it now holds the write lock in its own decode loop.
C20_Witness ==
    /\ Len(started) = 2
    /\ outcome[started[1]] = "Sink"
    /\ cur.id = started[2]
    /\ writer = cur.id
    /\ wpc = "forward"
    /\ nSink > 0

C22_EmbedVecLengthAndOrder ==
    (embeddings.done /\ embeddings.ok) =>
        /\ Len(embeddings.val) = input
        /\ \A i \in 1..Len(embeddings.val) :
              \E k \in 1..Len(response) :
                  /\ response[k].index = i - 1
                  /\ response[k].embedding = embeddings.val[i]

(***************************************************************************)
(* Further properties of the decode loop (InferSpec).                      *)
(***************************************************************************)
\* What holds of every step once the stop token was sampled, whatever _infer
\* returns: the sampling step itself decodes, delivers and forwards nothing,
\* and afterwards nothing is sampled, decoded or forwarded, and only the text
\* held back for the stop phrase can still reach on_token.
StopTokenEndsLoop ==
    /\ new_token' = "stop_token" =>
            (wpc' \in {"flush", "send", "recv"} /\ exit' = "stop_token")
    /\ (new_token # "stop_token" /\ new_token' = "stop_token") =>
            /\ nNextToken' = nNextToken
            /\ decoded' = decoded
            /\ sunk' = sunk
            /\ nForward' = nForward
            /\ fed' = fed
    /\ (new_token = "stop_token" /\ started' = started) =>
            /\ nSampled' = nSampled
            /\ nNextToken' = nNextToken
            /\ decoded' = decoded
            /\ nForward' = nForward
            /\ fed' = fed
            /\ sunk' \in {sunk, sunk \o queued_text_matching_stop_on}

\* C23 (as stated): when the sampled token is the stop token it is not given
\* to next_token, nothing of it is delivered, no forward pass and no sample
\* follow, and _infer returns Ok.
C23_StopTokenEndsWithSuccess ==
    [][/\ StopTokenEndsLoop
       /\ (new_token = "stop_token" /\ wpc = "flush" /\ wpc' = "send") =>
            ret' = "Ok"]_vars

\* C23 (amended): the same, except that _infer returns Ok or the error of the
\* one call of on_token that flushes the held-back text.
C23_StopTokenEndsOkOrFlushError ==
    [][/\ StopTokenEndsLoop
       /\ (new_token = "stop_token" /\ wpc = "flush" /\ wpc' = "send") =>
            \/ ret' = "Ok"
            \/ /\ ret' = "Sink"
               /\ nSink' = nSink + 1
               /\ FlushCalls(cur.stop_on, queued_text_matching_stop_on)]_vars

\* C23 witness: the stop token came after text had been delivered and a prefix
\* of the stop phrase held back; the prefix was flushed and the caller got Ok.
C23_Witness ==
    /\ new_token = "stop_token"
    /\ wpc = "recv"
    /\ outcome[cur.id] = "Ok"
    /\ queued_text_matching_stop_on # <<>>
    /\ Len(sunk) > Len(queued_text_matching_stop_on)
    /\ nForward > 1

(***************************************************************************)
(* Properties of the prompt phase of _infer (PromptSpec).                  *)
(***************************************************************************)
\* C24: by the time of the first forward pass next_token has been called for
\* every prompt token, and on_token receives only text that next_token gave
\* for sampled tokens: nothing before a sampled token was decoded, and never
\* more than was decoded from sampled tokens.
C24_PromptFedNotDelivered ==
    /\ nForward > 0 => nNextToken.prompt = tokens
    /\ nNextToken.sampled = 0 => sunk = <<>>
    /\ Len(sunk) <= Len(decoded)

\* C24 witness: a prompt of MaxPrompt tokens went through next_token, the
\* prompt and one sampled token went through forward, and text was delivered.
C24_Witness ==
    /\ tokens = MaxPrompt
    /\ nNextToken.prompt = MaxPrompt
    /\ nForward > 1
    /\ Len(sunk) > 0

(***************************************************************************)
(* Properties of the stop_on block across letter cases (CaseSpec).         *)
(***************************************************************************)
\* C25: two runs whose stop phrases and whose chunks differ only in the case
\* of their letters stop at the same chunk, or both go on.
C25_StopIsCaseInsensitive == caseStopped[1] = caseStopped[2]

\* C25 witness: the two runs, whose stop phrases of two letters differ in
\* case, both stopped at their second chunk or later.
C25_Witness ==
    /\ caseStop[1] # caseStop[2]
    /\ Len(caseStop[1].val) = 2
    /\ caseStopped[1] > 1
    /\ caseStopped[2] = caseStopped[1]

(***************************************************************************)
(* Properties of the order of delivery (OrderSpec).                        *)
(***************************************************************************)
\* C26: with a stop phrase configured, what has been passed to on_token so
\* far is, letter for letter, a prefix of what has been decoded so far.
C26_DeliveredIsPrefixOfDecoded ==
    (cur.kind = "unstructured" /\ cur.stop_on.some) =>
        IsPrefix(to_lowercase(sunk), to_lowercase(decoded))

C29_EncodingErrorBeforeAnyWork ==
    (cur.kind = "unstructured" /\ ret = "Tokenizer") =>
        /\ nForward = 0
        /\ fed = <<>>
        /\ nNextToken = [prompt |-> 0, sampled |-> 0]
        /\ nSampled = 0
        /\ nSink = 0
        /\ writer = 0
        /\ outcome[cur.id] \in {"none", "Tokenizer"}

\* C29 witness: the caller has received the tokenizer error.
C29_Witness ==
    /\ ret = "Tokenizer"
    /\ wpc = "recv"
    /\ outcome[cur.id] = "Tokenizer"
    /\ signals[cur.id] = 1

\* C30: a request whose prompt encoded to no token returns the error of
\* LlamaModel::forward with nothing sampled and on_token not called, and
\* model.forward is never called on an empty slice.
C30_EmptyPromptFailsInForward ==
    /\ \A i \in 1..Len(fed) : fed[i].n > 0
    /\ (cur.kind = "unstructured" /\ tokens = 0 /\ nForward > 0) =>
            /\ ret = "Candle"
            /\ wpc \in {"send", "recv"}
            /\ fed = <<>>
            /\ nSampled = 0
            /\ nSink = 0
            /\ outcome[cur.id] \in {"none", "Candle"}

\* C30 witness: the prompt encoded to no token, LlamaModel::forward was
\* called once, and the caller has received the Candle error.
C30_Witness ==
    /\ tokens = 0
    /\ nForward = 1
    /\ fed = <<>>
    /\ wpc = "recv"
    /\ outcome[cur.id] = "Candle"

(***************************************************************************)
(* Properties of the logits given to the sampler (TopKSpec).               *)
(***************************************************************************)
\* C27: after the prompt pass and after every pass over a new token, logits
\* holds the highest-scoring entries of that pass and at most 512 of them, and
\* the token the sampler takes is one of the 512 highest-scoring.
C27_SamplerSeesTop512 ==
    /\ pass # "none" =>
            /\ logits <= 512
            /\ logits <= logit_probs
            /\ logits = 512 \/ logits = logit_probs
    /\ candidate <= 512

\* C27 witness: a pass over a new token scored more than 512 entries, and the
\* sampler took the entry of rank 512.
C27_Witness ==
    /\ pass = "token"
    /\ logit_probs > 512
    /\ logits = 512
    /\ candidate = 512

(***************************************************************************)
(* Further properties of the stop-phrase block (InferSpec).                *)
(***************************************************************************)
\* C31: the loop is left through the stop-phrase break only when the text
\* decoded so far, lower-cased, contains the stop phrase as a contiguous
\* substring.
C31_NoFalseStop ==
    (cur.kind = "unstructured" /\ cur.stop_on.some /\ exit = "stop_phrase")
        => Contains(to_lowercase(decoded), P)

\* C32: at the head of every iteration of the decode loop the stop buffer is
\* a prefix of the lower-cased stop phrase and is the lower-cased text decoded
\* last: the end of the text decoded so far.
C32_BufferIsUndeliveredTail ==
    (cur.kind = "unstructured" /\ cur.stop_on.some /\ wpc = "head") =>
        LET d == to_lowercase(decoded)
            q == queued_text_matching_stop_on
        IN  /\ IsPrefix(q, P)
            /\ Len(q) <= Len(d)
            /\ SubSeq(d, Len(d) - Len(q) + 1, Len(d)) = q

\* C33: with the empty stop phrase, once a sampled token has yielded text the
\* loop has been left through the stop-phrase break, nothing was passed to
\* on_token, and the result, once set, is success.
C33_EmptyStopPhraseEndsAtFirstText ==
    (/\ cur.kind = "unstructured"
     /\ cur.stop_on.some
     /\ cur.stop_on.val = <<>>
     /\ decoded # <<>>)
        => /\ wpc \in {"flush", "send", "recv", "exited"}
           /\ exit = "stop_phrase"
           /\ nSink = 0
           /\ sunk = <<>>
           /\ ret = IF wpc = "flush" THEN "none" ELSE "Ok"

\* C33 witness: a request with the empty stop phrase has returned after one
\* token that yielded text.
C33_Witness ==
    /\ cur.kind = "unstructured"
    /\ cur.stop_on.some
    /\ cur.stop_on.val = <<>>
    /\ decoded # <<>>
    /\ nSampled >= 1
    /\ wpc = "send"
    /\ ret = "Ok"

(***************************************************************************)
(* Properties of Wuerstchen (WuerstchenSpec).                              *)
(***************************************************************************)
\* C34: the worker enters model.run for the settings in the order run_into
\* was called with them and for one at a time; once the handle was dropped and
\* the worker thread has ended, model.run was entered for all settings
\* run_into was called with; and drop has returned only if the thread has
\* ended.
C34_GenerateInOrderDropJoins ==
    /\ IsPrefix(ran, sent)
    /\ IsPrefix(completed, ran)
    /\ Len(ran) <= Len(completed) + 1
    /\ (dropped # "live" /\ Terminated) => Range(sent) \subseteq Range(ran)
    /\ dropped = "returned" => Terminated

\* C35: drop of the Wuerstchen handle never panics, whatever the worker
\* thread has done.
C35_DropNeverPanics == dropped # "panicked"

\* C36: in the task of generate, settings are given to the model only when
\* the image streams of all earlier settings have ended; the images sent to
\* the output stream are the images produced, in the order produced; a step of
\* the task that takes an image after the consumer dropped the output stream
\* sends nothing, drops the image stream and ends the task; once its receiver
\* is dropped the inference sends no further image; and after the task has
\* ended no settings are submitted.
C36_GenerateSequentialStopsOnDrop ==
    /\ [](task # "none" =>
            /\ \A id \in 1..(Len(sent) - 1) :
                  ~streams[id].tx /\ streams[id].buf = <<>> /\ ~streams[id].rx
            /\ Len(sender) <= 1
            /\ IsPrefix(output, images))
    /\ [][/\ (/\ task = "inner"
              /\ ~receiver
              /\ Len(streams'[Len(sent)].buf) < Len(streams[Len(sent)].buf))
                => /\ task' = "ended"
                   /\ ~streams'[Len(sent)].rx
                   /\ output' = output
          /\ (running # 0 /\ ~streams[running].rx) => images' = images
          /\ task = "ended" => (sent' = sent /\ output' = output)]_vars

\* C36 witness: the consumer dropped the output stream after an image was
\* forwarded; the task took the next image, ended with settings left in its
\* input and dropped the image stream while the inference was still running.
C36_Witness ==
    /\ task = "ended"
    /\ ~receiver
    /\ source > 0
    /\ output # <<>>
    /\ running = Len(sent)
    /\ thread = "run"
    /\ ~streams[running].rx

(***************************************************************************)
(* Properties of the remote chat calls (ChatSpec).                         *)
(***************************************************************************)
\* C37: when add_messages_with_callback has returned Ok, the session holds
\* the messages it held before the call and one more, whose text is the chunks
\* passed to on_token appended in order.
C37_UnstructuredOkAddsOneItem ==
    (chatKind = "unstructured" /\ chatPc = "returned" /\ chatReturn = "Ok")
        => messages = Append(before, NewMessage(Concat(on_token_args)))

\* C38: when add_message_with_callback_and_constraints has returned Ok, the
\* session holds the messages it held before the call and one more, whose text
\* is the chunks passed to on_token appended in order, and the value returned
\* is the parse of that text; and once an event with a finish reason has been
\* handled, on_token is not called again.
C38_StructuredOkAddsParsedItem ==
    /\ []((chatKind = "structured" /\ chatPc = "returned" /\ chatReturn = "Ok")
            => /\ messages = Append(before, NewMessage(Concat(on_token_args)))
               /\ from_str(Concat(on_token_args)).ok
               /\ parsed = from_str(Concat(on_token_args)).value)
    /\ [][(chatKind = "structured" /\ finish_reason_seen /\ chatKind' = chatKind
           /\ nCalls' = nCalls)
             => on_token_args' = on_token_args]_vars

\* C38 witness: a structured call has returned Ok after two chunks were passed
\* to on_token and an event with a finish reason ended the stream.
C38_Witness ==
    /\ chatKind = "structured"
    /\ chatPc = "returned"
    /\ chatReturn = "Ok"
    /\ finish_reason_seen
    /\ Len(on_token_args) = 2
    /\ parsed = 11
    /\ Len(messages) = Len(before) + 1

\* C39: when a remote chat call of either kind has returned an error, the
\* session holds exactly the messages it held before the call.
C39_ErrorLeavesHistoryUnchanged ==
    (chatPc = "returned" /\ chatReturn \notin {"none", "Ok"})
        => messages = before

\* C39 witness: a structured call on a session that already has a message
\* passed a chunk to on_token, saw the stream finish, and returned the error
\* of parsing its text.
C39_Witness ==
    /\ chatKind = "structured"
    /\ chatPc = "returned"
    /\ chatReturn = "DeserializeError"
    /\ finish_reason_seen
    /\ on_token_args # <<>>
    /\ new_message_text # <<>>
    /\ before # <<>>

=============================================================================
